---------------------------- MODULE Spec2Model ----------------------------
(***************************************************************************)
(* rsi-sniper: two alert bots sharing one design.                          *)
(*   - the momentum bot (src/unnamed/part_000): per-symbol rolling window  *)
(*     of close prices, RSI(15) on every closed 1m candle, edge-triggered  *)
(*     high/low alerts;                                                    *)
(*   - the volume bot (src/index.ts): per-symbol rolling window of         *)
(*     notional volumes, a spike alert on every qualifying closed candle.  *)
(* Both push alerts into one FIFO queue that a timer drains, one alert per *)
(* tick, into the Telegram sink.                                           *)
(*                                                                         *)
(* A run of the model is a run of one of the two programs (variable        *)
(* program).  Numbers are integers: prices and volumes are integer-valued  *)
(* floats, NaN is a distinguished value, an RSI value is kept in           *)
(* hundredths (the library rounds it to two decimals).                     *)
(***************************************************************************)
EXTENDS Integers, Sequences, FiniteSets, TLC

\* ------------------------------------------------------------ constants
rsiPeriod == 15
rsiUpper == 80
rsiLower == 20
\* capacity of closePrices[symbol]: `if (arr.length > 100) arr.shift()`
closeLimit == 100
volumeMultiplier == 2
candleLimit == 30
\* `volumeUSD >= 50_000`
volumeFloor == 50000
batchSize == 20
numberCoins == 100
\* RSI values are carried in hundredths: toFixed(2)
Hundredths == 100

\* parseFloat of a missing or non-numeric field
NaN == 0 - 1
\* `rsi.at(-1)` of an empty result
Undefined == 0 - 2

\* ------------------------------------------------------------ bounds
\* live-feed messages handled in one run
MaxMsgs == 3

\* ------------------------------------------------------------ inputs
\* what /ticker/24hr yields after filter, sort, slice and lower-casing
Universe == <<"btcusdt", "newusdt">>
Symbols == {Universe[i] : i \in 1..Len(Universe)}
NoSymbol == "-"

\* k.c of a closed 1m candle (momentum bot), parsed
ClosePriceInputs == {NaN, 40, 50, 60, 80}
\* k.v and k.c of a closed 15m candle (volume bot), parsed
VolumeInputs == {NaN, 400, 500, 1000}
VolumeCloseInputs == {NaN, 100}

Repeat(x, n) == [i \in 1..n |-> x]

\* GET /klines?limit=100 for a long-listed pair: 100 candles; for a pair
\* listed 14 minutes ago: 14 candles.
KlineCloses(symbol) ==
    IF symbol = "btcusdt" THEN Repeat(50, closeLimit) ELSE Repeat(50, 14)

\* GET /klines?interval=15m&limit=30, as volume * close per candle
KlineVolumes(symbol) ==
    IF symbol = "btcusdt" THEN Repeat(20000, candleLimit)
    ELSE Repeat(30000, candleLimit - 1)


\* ------------------------------------------------------------ helpers
Last(seq) == seq[Len(seq)]

\* mutant: push without eviction
PushNoShift(arr, x, limit) == Append(arr, x)

\* mutant: eviction as soon as the window is full
PushShiftAtLimit(arr, x, limit) ==
    LET pushed == Append(arr, x)
    IN  IF Len(pushed) >= limit THEN Tail(pushed) ELSE pushed

\* `arr.push(x); if (arr.length > limit) arr.shift()`
PushShift(arr, x, limit) ==
    LET pushed == Append(arr, x)
    IN  IF Len(pushed) > limit THEN Tail(pushed) ELSE pushed

\* symbol.toUpperCase().replace("USDT", "")
Base(symbol) ==
    CASE symbol = "btcusdt" -> "BTC"
      [] symbol = "newusdt" -> "NEW"
      [] OTHER -> symbol

\* float product: NaN if either factor is NaN
Mul(a, b) == IF a = NaN \/ b = NaN THEN NaN ELSE a * b

\* float sum of a window, `history.reduce((a, b) => a + b, 0)`
RECURSIVE Sum(_)
Sum(seq) ==
    IF seq = <<>> THEN 0
    ELSE LET rest == Sum(Tail(seq))
         IN  IF Head(seq) = NaN \/ rest = NaN THEN NaN ELSE Head(seq) + rest

\* ------------------------------------------------------------ RSI
\* technicalindicators' RSI.calculate({values, period}).at(-1), as the
\* library computes it: average gain and loss seeded by the simple average of
\* the first `period` deltas, then smoothed with ((avg * (period-1)) + x) /
\* period; 100 when the average loss is 0, else 0 when the average gain is
\* 0, else 100 - 100/(1+RS) rounded to two decimals.  Averages are kept as
\* exact fractions gain/den and loss/den.

RECURSIVE GCD(_, _)
GCD(a, b) == IF b = 0 THEN a ELSE GCD(b, a % b)

\* `gain = currentValue - lastValue; gain = gain > 0 ? gain : 0`
\* (a comparison with NaN is false)
Gain(lastValue, currentValue) ==
    IF lastValue = NaN \/ currentValue = NaN THEN 0
    ELSE IF currentValue - lastValue > 0 THEN currentValue - lastValue ELSE 0

Loss(lastValue, currentValue) ==
    IF lastValue = NaN \/ currentValue = NaN THEN 0
    ELSE IF lastValue - currentValue > 0 THEN lastValue - currentValue ELSE 0

Reduce(avg) ==
    LET d == GCD(GCD(avg.gain, avg.loss), avg.den)
    IN  [avg EXCEPT !.gain = avg.gain \div d, !.loss = avg.loss \div d,
                    !.den = avg.den \div d]

\* The averages after delta k (between values[k] and values[k+1]).
AverageStep(avg, lastValue, currentValue, k, period) ==
    LET g == Gain(lastValue, currentValue)
        l == Loss(lastValue, currentValue)
    IN  IF k < period
        THEN [avg EXCEPT !.gainSum = @ + g, !.lossSum = @ + l]
        ELSE IF ~avg.defined
        THEN Reduce([defined |-> TRUE, gainSum |-> avg.gainSum + g,
                     lossSum |-> avg.lossSum + l, gain |-> avg.gainSum + g,
                     loss |-> avg.lossSum + l, den |-> period])
        ELSE Reduce([avg EXCEPT !.gain = avg.gain * (period - 1) + g * avg.den,
                                !.loss = avg.loss * (period - 1) + l * avg.den,
                                !.den = avg.den * period])

\* The averages after deltas from..to, starting from avg (the library's
\* generator, fed the values in order; the range is split, and the left
\* half evaluated first, to keep the evaluation shallow: den > 0 always).
RECURSIVE Averages(_, _, _, _, _)
Averages(values, period, from, to, avg) ==
    IF from > to THEN avg
    ELSE IF from = to
    THEN AverageStep(avg, values[from], values[from + 1], from, period)
    ELSE LET mid == (from + to) \div 2
             left == Averages(values, period, from, mid, avg)
         IN  IF left.den > 0
             THEN Averages(values, period, mid + 1, to, left)
             ELSE left

\* round(Hundredths * 100 * num / den) for 0 < num < den, digit by digit
RECURSIVE Digits(_, _, _, _)
Digits(rem, den, n, acc) ==
    IF n = 0 THEN IF 2 * rem >= den THEN acc + 1 ELSE acc
    ELSE Digits((10 * rem) % den, den, n - 1, 10 * acc + (10 * rem) \div den)

\* parseFloat((100 - (100 / (1 + RS))).toFixed(2)), RS = gain / loss
RsiValue(avg) ==
    IF avg.loss = 0 THEN 100 * Hundredths
    ELSE IF avg.gain = 0 THEN 0
    ELSE Digits(avg.gain, avg.gain + avg.loss, 4, 0)

RsiLatest(values, period) ==
    LET avg == Averages(values, period, 1, Len(values) - 1,
                        [defined |-> FALSE, gainSum |-> 0, lossSum |-> 0,
                         gain |-> 0, loss |-> 0, den |-> 1])
    IN  IF avg.defined THEN RsiValue(avg) ELSE Undefined

\* ------------------------------------------------------------ state
VARIABLES
    program,        \* "rsi" (src/unnamed/part_000) or "volume" (src/index.ts)
    pc,             \* where main() stands
    symbols,        \* getTopSymbols' result
    batchStart,     \* preloadAll's loop variable i (0-based)
    preloaded,      \* symbols whose preload promise has settled
    closePrices,    \* momentum bot: symbol -> window of closes
    lastAlert,      \* momentum bot: symbol -> "high" | "low" | "null"
    volumeHistory,  \* volume bot: symbol -> window of notional volumes
    alertQueue,     \* pending alerts, oldest first
    handed,         \* history: alerts passed to bot.sendMessage, in order
    settled,        \* how many of those sends' promises have settled
    enqueued,       \* history: alerts ever pushed on alertQueue, in order
    seeded,         \* history: symbol -> the samples its preload stored
    tickLog,        \* history: symbol -> what each closed candle did
    msgs,           \* history: live-feed messages handled so far
    last            \* history: the event handled by the last step

vars == <<program, pc, symbols, batchStart, preloaded, closePrices, lastAlert,
          volumeHistory, alertQueue, handed, settled, enqueued, seeded, tickLog,
          msgs, last>>

Event(kind, symbol, info) == [kind |-> kind, symbol |-> symbol, info |-> info]

\* An absent map entry reads as the value the handlers substitute for it:
\* `closePrices[symbol] ||= []`, `lastAlert[symbol] || { type: null }`.
Init ==
    /\ program \in {"rsi", "volume"}
    /\ pc = "getTopSymbols"
    /\ symbols = <<>>
    /\ batchStart = 0
    /\ preloaded = {}
    /\ closePrices = [s \in Symbols |-> <<>>]
    /\ lastAlert = [s \in Symbols |-> "null"]
    /\ volumeHistory = [s \in Symbols |-> <<>>]
    /\ alertQueue = <<>>
    /\ handed = <<>>
    /\ settled = 0
    /\ enqueued = <<>>
    /\ seeded = [s \in Symbols |-> <<>>]
    /\ tickLog = [s \in Symbols |-> <<>>]
    /\ msgs = 0
    /\ last = Event("start", NoSymbol, "")

\* ------------------------------------------------------------ dispatcher
\* mutant: the timer takes the newest alert (pop for shift)
DrainNewest ==
    /\ IF alertQueue = <<>>
       THEN /\ UNCHANGED <<alertQueue, handed>>
            /\ last' = Event("drain", NoSymbol, "empty")
       ELSE /\ alertQueue' = SubSeq(alertQueue, 1, Len(alertQueue) - 1)
            /\ handed' = Append(handed, alertQueue[Len(alertQueue)])
            /\ last' = Event("drain", NoSymbol, "handed")
    /\ UNCHANGED <<program, pc, symbols, batchStart, preloaded, closePrices,
                   lastAlert, volumeHistory, settled, enqueued, seeded, tickLog,
                   msgs>>

\* mutant: the timer removes the alert and does not send it (`if (!next)`)
DrainDrops ==
    /\ IF alertQueue = <<>>
       THEN /\ UNCHANGED <<alertQueue, handed>>
            /\ last' = Event("drain", NoSymbol, "empty")
       ELSE /\ alertQueue' = Tail(alertQueue)
            /\ handed' = handed
            /\ last' = Event("drain", NoSymbol, "dropped")
    /\ UNCHANGED <<program, pc, symbols, batchStart, preloaded, closePrices,
                   lastAlert, volumeHistory, settled, enqueued, seeded, tickLog,
                   msgs>>

\* setInterval(() => { const next = alertQueue.shift(); if (next) send })
\* The send's promise settles later (Settle).
Drain ==
    /\ IF alertQueue = <<>>
       THEN /\ UNCHANGED <<alertQueue, handed>>
            /\ last' = Event("drain", NoSymbol, "empty")
       ELSE /\ alertQueue' = Tail(alertQueue)
            /\ handed' = Append(handed, Head(alertQueue))
            /\ last' = Event("drain", NoSymbol, "handed")
    /\ UNCHANGED <<program, pc, symbols, batchStart, preloaded, closePrices,
                   lastAlert, volumeHistory, settled, enqueued, seeded, tickLog,
                   msgs>>

\* mutant: a rejected send puts its alert back on the queue
SettleRequeue ==
    /\ settled < Len(handed)
    /\ settled' = settled + 1
    /\ \/ /\ last' = Event("settled", NoSymbol, "sent")
          /\ alertQueue' = alertQueue
       \/ /\ last' = Event("settled", NoSymbol, "rejected")
          /\ alertQueue' = Append(alertQueue, handed[settled + 1])
    /\ UNCHANGED <<program, pc, symbols, batchStart, preloaded, closePrices,
                   lastAlert, volumeHistory, handed, enqueued, seeded,
                   tickLog, msgs>>

\* bot.sendMessage(...)'s promise settles: fulfilled, or rejected and the
\* error logged by `.catch(console.error)`.  Neither touches the program's
\* data.
Settle ==
    /\ settled < Len(handed)
    /\ settled' = settled + 1
    /\ \E outcome \in {"sent", "rejected"} :
           last' = Event("settled", NoSymbol, outcome)
    /\ UNCHANGED <<program, pc, symbols, batchStart, preloaded, closePrices,
                   lastAlert, volumeHistory, alertQueue, handed, enqueued,
                   seeded, tickLog, msgs>>

\* ------------------------------------------------------------ startup
\* main(): `const symbols = await getTopSymbols(numberCoins)`; a rejection is
\* caught by main's try/catch and nothing else runs.
GetTopSymbols ==
    /\ pc = "getTopSymbols"
    /\ \/ /\ symbols' = SubSeq(Universe, 1,
                               IF Len(Universe) < numberCoins
                               THEN Len(Universe) ELSE numberCoins)
          /\ pc' = "preloadAll"
          /\ last' = Event("getTopSymbols", NoSymbol, "ok")
       \/ /\ symbols' = symbols
          /\ pc' = "stopped"
          /\ last' = Event("getTopSymbols", NoSymbol, "error")
    /\ UNCHANGED <<program, batchStart, preloaded, closePrices, lastAlert,
                   volumeHistory, alertQueue, handed, settled, enqueued, seeded,
                   tickLog, msgs>>

\* symbols.slice(i, i + batchSize)
Batch == {symbols[j] : j \in {j \in 1..Len(symbols) :
                                  j > batchStart /\ j <= batchStart + batchSize}}

\* preloadCloses(symbol): the window is replaced by the fetched closes, or,
\* when the request fails, left as it is.
PreloadCloses(symbol) ==
    /\ program = "rsi"
    /\ pc = "preloadAll"
    /\ symbol \in Batch \ preloaded
    /\ \/ /\ closePrices' = [closePrices EXCEPT ![symbol] = KlineCloses(symbol)]
          /\ seeded' = [seeded EXCEPT ![symbol] = KlineCloses(symbol)]
          /\ last' = Event("preload", symbol, "ok")
       \/ /\ closePrices' = closePrices
          /\ seeded' = seeded
          /\ last' = Event("preload", symbol, "error")
    /\ preloaded' = preloaded \cup {symbol}
    /\ UNCHANGED <<program, pc, symbols, batchStart, lastAlert, volumeHistory,
                   alertQueue, handed, settled, enqueued, tickLog, msgs>>

\* preloadVolumes(symbol)
PreloadVolumes(symbol) ==
    /\ program = "volume"
    /\ pc = "preloadAll"
    /\ symbol \in Batch \ preloaded
    /\ \/ /\ volumeHistory' =
                 [volumeHistory EXCEPT ![symbol] = KlineVolumes(symbol)]
          /\ seeded' = [seeded EXCEPT ![symbol] = KlineVolumes(symbol)]
          /\ last' = Event("preload", symbol, "ok")
       \/ /\ volumeHistory' = volumeHistory
          /\ seeded' = seeded
          /\ last' = Event("preload", symbol, "error")
    /\ preloaded' = preloaded \cup {symbol}
    /\ UNCHANGED <<program, pc, symbols, batchStart, closePrices, lastAlert,
                   alertQueue, handed, settled, enqueued, tickLog, msgs>>

\* mutant: the batch's Promise.all is not awaited
NextBatchNoAwait ==
    /\ pc = "preloadAll"
    /\ IF batchStart < Len(symbols)
       THEN /\ batchStart' = batchStart + batchSize
            /\ pc' = pc
       ELSE /\ batchStart' = batchStart
            /\ pc' = "notifyAdmin"
    /\ last' = Event("preloadAll", NoSymbol, "")
    /\ UNCHANGED <<program, symbols, preloaded, closePrices, lastAlert,
                   volumeHistory, alertQueue, handed, settled, enqueued, seeded,
                   tickLog, msgs>>

\* preloadAll's loop: after Promise.all of a batch and the sleep, the next
\* batch; after the last batch main goes on.
NextBatch ==
    /\ pc = "preloadAll"
    /\ Batch \subseteq preloaded
    /\ IF batchStart < Len(symbols)
       THEN /\ batchStart' = batchStart + batchSize
            /\ pc' = pc
       ELSE /\ batchStart' = batchStart
            /\ pc' = "notifyAdmin"
    /\ last' = Event("preloadAll", NoSymbol, "")
    /\ UNCHANGED <<program, symbols, preloaded, closePrices, lastAlert,
                   volumeHistory, alertQueue, handed, settled, enqueued, seeded,
                   tickLog, msgs>>

\* `await bot.sendMessage(ADMIN_CHAT_ID, ...)` then `startWebSocket(symbols)`;
\* a rejected send throws into main's catch and the socket is never opened.
NotifyAdmin ==
    /\ pc = "notifyAdmin"
    /\ \/ /\ pc' = "live"
          /\ last' = Event("notifyAdmin", NoSymbol, "ok")
       \/ /\ pc' = "stopped"
          /\ last' = Event("notifyAdmin", NoSymbol, "error")
    /\ UNCHANGED <<program, symbols, batchStart, preloaded, closePrices,
                   lastAlert, volumeHistory, alertQueue, handed, settled,
                   enqueued, seeded, tickLog, msgs>>

\* ------------------------------------------------------------ live feed
\* history: what a step put on the queue, read off the queue itself
Added(queue, queueAfter) ==
    IF Len(queueAfter) >= Len(queue)
           /\ SubSeq(queueAfter, 1, Len(queue)) = queue
    THEN SubSeq(queueAfter, Len(queue) + 1, Len(queueAfter))
    ELSE <<[alertType |-> "?"]>>

\* A message of the combined kline stream, as the handlers read it:
\*   parses  JSON.parse(raw) succeeds and msg.data is an object
\*   s       msg.data.s (NoSymbol: missing)
\*   hasK    msg.data.k is an object
\*   x       k.x
\*   c, v    parseFloat(k.c), parseFloat(k.v)
Message(parses, s, hasK, x, c, v) ==
    [parses |-> parses, s |-> s, hasK |-> hasK, x |-> x, c |-> c, v |-> v]

Subscribed == {symbols[j] : j \in 1..Len(symbols)}

MalformedMessages ==
    {Message(FALSE, NoSymbol, FALSE, FALSE, NaN, NaN)}
        \cup {Message(TRUE, s, FALSE, FALSE, NaN, NaN) : s \in Subscribed}

RsiMessages ==
    MalformedMessages
        \cup {Message(TRUE, s, TRUE, FALSE, 50, NaN) : s \in Subscribed}
        \cup {Message(TRUE, s, TRUE, TRUE, c, NaN) :
                  s \in Subscribed, c \in ClosePriceInputs}

VolumeMessages ==
    MalformedMessages
        \cup {Message(TRUE, s, TRUE, FALSE, 100, 500) : s \in Subscribed}
        \cup {Message(TRUE, s, TRUE, TRUE, c, v) :
                  s \in Subscribed, c \in VolumeCloseInputs, v \in VolumeInputs}

\* JSON.parse, msg.data.s.toLowerCase() or k.x throws: the handler's catch
Throws(msg) == ~msg.parses \/ msg.s = NoSymbol \/ ~msg.hasK

\* mutant: the k.x test left out, forming candles handled like closed ones
SkipsNothing(msg) == FALSE

\* `if (!k.x) return;`
Skips(msg) == ~msg.x

\* the event a message is, for the history variable
EventOf(msg) ==
    IF Throws(msg) THEN Event("malformed", msg.s, "")
    ELSE IF ~msg.x THEN Event("forming", msg.s, "")
    ELSE IF msg.c = NaN \/ (program = "volume" /\ msg.v = NaN)
    THEN Event("closed", msg.s, "non-numeric")
    ELSE Event("closed", msg.s, "")

\* ---- momentum bot
\* mutant: the alert kind read off the wrong side of the threshold
RsiAlertTextSwapped(symbol, rsi, price) ==
    [base |-> Base(symbol),
     status |-> IF rsi < rsiUpper * Hundredths THEN "red" ELSE "green",
     alertType |-> IF rsi < rsiUpper * Hundredths THEN "high" ELSE "low",
     rsi |-> rsi,
     price |-> price]

\* sendRsiAlert's message, by the fields its text is built from
RsiAlertText(symbol, rsi, price) ==
    [base |-> Base(symbol),
     status |-> IF rsi > rsiUpper * Hundredths THEN "red" ELSE "green",
     alertType |-> IF rsi > rsiUpper * Hundredths THEN "high" ELSE "low",
     rsi |-> rsi,
     price |-> price]

sendRsiAlert(queue, symbol, rsi, price) ==
    Append(queue, RsiAlertText(symbol, rsi, price))

\* mutant: each branch tests the other kind's suppression state
RsiBranchSwappedCheck(latest, type) ==
    IF latest = Undefined THEN "none"
    ELSE IF latest > rsiUpper * Hundredths /\ type # "low" THEN "high"
    ELSE IF latest < rsiLower * Hundredths /\ type # "high" THEN "low"
    ELSE IF latest >= rsiLower * Hundredths /\ latest <= rsiUpper * Hundredths
    THEN "neutral"
    ELSE "none"

\* mutant: no suppression, every extreme metric alerts
RsiBranchNoSuppress(latest, type) ==
    IF latest = Undefined THEN "none"
    ELSE IF latest > rsiUpper * Hundredths THEN "high"
    ELSE IF latest < rsiLower * Hundredths THEN "low"
    ELSE "neutral"

\* mutant: the upper threshold itself counts as high
RsiBranchInclusiveHigh(latest, type) ==
    IF latest = Undefined THEN "none"
    ELSE IF latest >= rsiUpper * Hundredths /\ type # "high" THEN "high"
    ELSE IF latest < rsiLower * Hundredths /\ type # "low" THEN "low"
    ELSE IF latest >= rsiLower * Hundredths /\ latest <= rsiUpper * Hundredths
    THEN "neutral"
    ELSE "none"

\* mutant: the neutral branch does not reset the state
RsiBranchNoReset(latest, type) ==
    IF latest = Undefined THEN "none"
    ELSE IF latest > rsiUpper * Hundredths /\ type # "high" THEN "high"
    ELSE IF latest < rsiLower * Hundredths /\ type # "low" THEN "low"
    ELSE "none"

\* the branch the handler takes on `latest` with lastAlert[symbol].type = type
RsiBranch(latest, type) ==
    IF latest = Undefined THEN "none"
    ELSE IF latest > rsiUpper * Hundredths /\ type # "high" THEN "high"
    ELSE IF latest < rsiLower * Hundredths /\ type # "low" THEN "low"
    ELSE IF latest >= rsiLower * Hundredths /\ latest <= rsiUpper * Hundredths
    THEN "neutral"
    ELSE "none"

\* mutant: the guard asks for two prices more than the period
LatestLateGuard(arr) ==
    IF Len(arr) >= rsiPeriod + 2 THEN RsiLatest(arr, rsiPeriod) ELSE Undefined

\* `if (arr.length >= rsiPeriod) { latest = RSI.calculate(...).at(-1) ... }`
Latest(arr) ==
    IF Len(arr) >= rsiPeriod THEN RsiLatest(arr, rsiPeriod) ELSE Undefined

\* mutant: one alert state shared by all symbols
ClosedRsiSharedState(symbol, close, arr, latest, branch) ==
    /\ closePrices' = [closePrices EXCEPT ![symbol] = arr]
    /\ IF branch \in {"high", "low"}
       THEN /\ alertQueue' = sendRsiAlert(alertQueue, symbol, latest, close)
            /\ enqueued' = Append(enqueued, RsiAlertText(symbol, latest, close))
            /\ lastAlert' = [s \in Symbols |-> branch]
       ELSE /\ UNCHANGED <<alertQueue, enqueued>>
            /\ lastAlert' = IF branch = "neutral"
                            THEN [s \in Symbols |-> "null"]
                            ELSE lastAlert
    /\ tickLog' = [tickLog EXCEPT
                       ![symbol] = Append(@,
                           [sample |-> close,
                            latest |-> latest,
                            before |-> lastAlert[symbol],
                            after |-> lastAlert'[symbol],
                            alerts |-> Added(alertQueue, alertQueue')])]

\* The handler's work on a closed candle, given what it computes on the way
\* (arr after push and shift, latest, the branch taken).
ClosedRsi(symbol, close, arr, latest, branch) ==
    /\ closePrices' = [closePrices EXCEPT ![symbol] = arr]
    /\ IF branch \in {"high", "low"}
       THEN /\ alertQueue' = sendRsiAlert(alertQueue, symbol, latest, close)
            /\ enqueued' = Append(enqueued, RsiAlertText(symbol, latest, close))
            /\ lastAlert' = [lastAlert EXCEPT ![symbol] = branch]
       ELSE /\ UNCHANGED <<alertQueue, enqueued>>
            /\ lastAlert' = IF branch = "neutral"
                            THEN [lastAlert EXCEPT ![symbol] = "null"]
                            ELSE lastAlert
    /\ tickLog' = [tickLog EXCEPT
                       ![symbol] = Append(@,
                           [sample |-> close,
                            latest |-> latest,
                            before |-> lastAlert[symbol],
                            after |-> lastAlert'[symbol],
                            alerts |-> Added(alertQueue, alertQueue')])]

\* mutant: the handler is suspended after the push (an await before the
\* RSI decision), and other callbacks run on the half-updated state
OnMessageRsiSuspended(msg) ==
    /\ program = "rsi"
    /\ pc = "live"
    /\ msgs < MaxMsgs
    /\ msgs' = msgs + 1
    /\ last' = EventOf(msg)
    /\ IF Throws(msg) \/ Skips(msg)
       THEN closePrices' = closePrices
       ELSE closePrices' =
                [closePrices EXCEPT
                     ![msg.s] = PushShift(closePrices[msg.s], msg.c, closeLimit)]
    /\ UNCHANGED <<program, pc, symbols, batchStart, preloaded, volumeHistory,
                   lastAlert, alertQueue, enqueued, tickLog, handed, settled,
                   seeded>>

OnMessageRsi(msg) ==
    /\ program = "rsi"
    /\ pc = "live"
    /\ msgs < MaxMsgs
    /\ msgs' = msgs + 1
    /\ last' = EventOf(msg)
    /\ IF Throws(msg) \/ Skips(msg)
       THEN UNCHANGED <<closePrices, lastAlert, alertQueue, enqueued, tickLog>>
       ELSE \E arr \in {PushShift(closePrices[msg.s], msg.c, closeLimit)} :
            \E latest \in {Latest(arr)} :
                ClosedRsi(msg.s, msg.c, arr, latest,
                          RsiBranch(latest, lastAlert[msg.s]))
    /\ UNCHANGED <<program, pc, symbols, batchStart, preloaded, volumeHistory,
                   handed, settled, seeded>>

\* ---- volume bot
VolumeAlertText(symbol, volumeUSD) ==
    [base |-> Base(symbol), alertType |-> "volume", volumeUSD |-> volumeUSD]

\* mutant: unshift for push
sendVolumeAlertFront(queue, symbol, volumeUSD) ==
    <<VolumeAlertText(symbol, volumeUSD)>> \o queue

sendVolumeAlert(queue, symbol, volumeUSD) ==
    Append(queue, VolumeAlertText(symbol, volumeUSD))

\* `history.reduce((a, b) => a + b, 0) / history.length` as the fraction
\* num/den; 0/0 and a sum over a NaN entry are NaN
Average(history) ==
    [nan |-> Len(history) = 0 \/ Sum(history) = NaN,
     num |-> Sum(history), den |-> Len(history)]

\* `volumeUSD >= volumeMultiplier * avg` (false when either side is NaN)
AtLeastMultiple(volumeUSD, avg) ==
    /\ volumeUSD # NaN
    /\ ~avg.nan
    /\ volumeUSD * avg.den >= volumeMultiplier * avg.num

\* mutant: the $50k floor left out
IsSpikeNoFloor(history, volumeUSD) ==
    /\ Len(history) >= candleLimit
    /\ AtLeastMultiple(volumeUSD, Average(history))

\* the handler's `if (...) sendVolumeAlert(...)`
IsSpike(history, volumeUSD) ==
    /\ Len(history) >= candleLimit
    /\ AtLeastMultiple(volumeUSD, Average(history))
    /\ volumeUSD # NaN
    /\ volumeUSD >= volumeFloor

\* The handler's work on a closed candle of notional volume volumeUSD.
ClosedVolume(symbol, volumeUSD, history) ==
    /\ IF IsSpike(history, volumeUSD)
       THEN /\ alertQueue' = sendVolumeAlert(alertQueue, symbol, volumeUSD)
            /\ enqueued' = Append(enqueued, VolumeAlertText(symbol, volumeUSD))
       ELSE UNCHANGED <<alertQueue, enqueued>>
    /\ volumeHistory' =
           [volumeHistory EXCEPT
                ![symbol] = PushShift(history, volumeUSD, candleLimit)]
    /\ tickLog' = [tickLog EXCEPT
                       ![symbol] = Append(@,
                           [sample |-> volumeUSD,
                            latest |-> Undefined,
                            before |-> "null",
                            after |-> "null",
                            alerts |-> Added(alertQueue, alertQueue')])]

OnMessageVolume(msg) ==
    /\ program = "volume"
    /\ pc = "live"
    /\ msgs < MaxMsgs
    /\ msgs' = msgs + 1
    /\ last' = EventOf(msg)
    /\ IF Throws(msg) \/ Skips(msg)
       THEN UNCHANGED <<volumeHistory, alertQueue, enqueued, tickLog>>
       ELSE \E volumeUSD \in {Mul(msg.v, msg.c)} :
                ClosedVolume(msg.s, volumeUSD, volumeHistory[msg.s])
    /\ UNCHANGED <<program, pc, symbols, batchStart, preloaded, closePrices,
                   lastAlert, handed, settled, seeded>>

\* ------------------------------------------------------------ specification
Next ==
    \/ GetTopSymbols
    \/ \E symbol \in Symbols : PreloadCloses(symbol)
    \/ \E symbol \in Symbols : PreloadVolumes(symbol)
    \/ NextBatch
    \/ NotifyAdmin
    \/ \E msg \in RsiMessages : OnMessageRsi(msg)
    \/ \E msg \in VolumeMessages : OnMessageVolume(msg)
    \/ Drain
    \/ Settle

Spec == Init /\ [][Next]_vars

\* the drain timer keeps firing
FairSpec == Spec /\ WF_vars(Drain)

TypeOK ==
    /\ program \in {"rsi", "volume"}
    /\ pc \in {"getTopSymbols", "preloadAll", "notifyAdmin", "live", "stopped"}
    /\ msgs \in 0..MaxMsgs
    /\ settled \in 0..Len(handed)
    /\ \A s \in Symbols : lastAlert[s] \in {"null", "high", "low"}

\* ------------------------------------------------------------ properties
\* Vocabulary of the claims.
Above(metric) == metric > rsiUpper * Hundredths
Below(metric) == metric < rsiLower * Hundredths
InBand(metric) ==
    metric >= rsiLower * Hundredths /\ metric <= rsiUpper * Hundredths

IsDecided(entry) == entry.latest # Undefined
\* the closed candles of a symbol on which a metric was decided, in order
Decided(symbol) == SelectSeq(tickLog[symbol], IsDecided)

\* the kinds of the alerts a closed candle enqueued, in order
AlertKinds(entry) ==
    [n \in 1..Len(entry.alerts) |-> entry.alerts[n].alertType]

\* Extreme(kind, m): the metric lies in the zone alert `kind` is about
Extreme(kind, metric) ==
    IF kind = "high" THEN Above(metric) ELSE Below(metric)

AlertKindSet == {"high", "low"}

\* C1 (as stated): between any two alerts of the same kind for one symbol
\* there is a decided metric inside the neutral band [rsiLower, rsiUpper].
C1_NeutralBetweenSameKind ==
    \A symbol \in Symbols : \A kind \in AlertKindSet :
        LET d == Decided(symbol)
        IN  \A i \in 1..Len(d) : \A j \in 1..Len(d) :
                (i < j /\ AlertKinds(d[i]) = <<kind>> /\ AlertKinds(d[j]) = <<kind>>)
                    => \E k \in (i + 1)..(j - 1) : InBand(d[k].latest)

\* C1 (amended): between any two alerts of the same kind for one symbol
\* there is a decided metric outside that kind's extreme zone (inside the
\* neutral band, or in the opposite zone).
C1_LeftZoneBetweenSameKind ==
    \A symbol \in Symbols : \A kind \in AlertKindSet :
        LET d == Decided(symbol)
        IN  \A i \in 1..Len(d) : \A j \in 1..Len(d) :
                (i < j /\ AlertKinds(d[i]) = <<kind>> /\ AlertKinds(d[j]) = <<kind>>)
                    => \E k \in (i + 1)..(j - 1) : ~Extreme(kind, d[k].latest)

\* two alerts of one kind for one symbol have been enqueued
C1_Witness ==
    \E symbol \in Symbols : \E kind \in AlertKindSet :
        LET d == Decided(symbol)
        IN  \E i \in 1..Len(d) : \E j \in 1..Len(d) :
                i < j /\ AlertKinds(d[i]) = <<kind>> /\ AlertKinds(d[j]) = <<kind>>

\* C2: a run of consecutive decided metrics of one symbol, all in one extreme
\* zone, that starts in an alert state other than that extreme enqueues
\* exactly one alert, of that kind, at its first metric; every later metric of
\* the run enqueues nothing and leaves the alert state as it was.
C2_OneAlertPerRun ==
    \A symbol \in Symbols : \A kind \in AlertKindSet :
        LET d == Decided(symbol)
        IN  \A i \in 1..Len(d) : \A j \in i..Len(d) :
                (/\ d[i].before # kind
                 /\ \A k \in i..j : Extreme(kind, d[k].latest))
                    => /\ AlertKinds(d[i]) = <<kind>>
                       /\ \A k \in (i + 1)..j :
                              /\ d[k].alerts = <<>>
                              /\ d[k].after = d[k].before

\* a run of two metrics in one zone has been processed
C2_Witness ==
    \E symbol \in Symbols : \E kind \in AlertKindSet :
        LET d == Decided(symbol)
        IN  \E i \in 1..Len(d) :
                /\ i < Len(d)
                /\ d[i].before # kind
                /\ Extreme(kind, d[i].latest)
                /\ Extreme(kind, d[i + 1].latest)

\* C3: a decided metric above rsiUpper in a state other than "high"
\* enqueues exactly one alert, of kind "high", and sets the state to "high";
\* one below rsiLower in a state other than "low" enqueues exactly one
\* "low" alert and sets the state to "low".
C3_EnterExtreme ==
    \A symbol \in Symbols : \A kind \in AlertKindSet :
        LET d == Decided(symbol)
        IN  \A i \in 1..Len(d) :
                (Extreme(kind, d[i].latest) /\ d[i].before # kind)
                    => /\ AlertKinds(d[i]) = <<kind>>
                       /\ d[i].alerts[1].base = Base(symbol)
                       /\ d[i].after = kind

\* a "high" alert out of state "low" and a "low" alert out of state "high"
C3_Witness ==
    \E symbol \in Symbols :
        LET d == Decided(symbol)
        IN  /\ \E i \in 1..Len(d) :
                   Above(d[i].latest) /\ d[i].before = "low"
            /\ \E i \in 1..Len(d) :
                   Below(d[i].latest) /\ d[i].before = "high"

\* C4: a decided metric inside [rsiLower, rsiUpper], bounds included, sets
\* the state to neutral and enqueues nothing, and the next decided metric
\* outside the band enqueues one alert.
C4_NeutralRearms ==
    \A symbol \in Symbols :
        LET d == Decided(symbol)
        IN  \A i \in 1..Len(d) :
                InBand(d[i].latest)
                    => /\ d[i].alerts = <<>>
                       /\ d[i].after = "null"
                       /\ (i < Len(d) /\ ~InBand(d[i + 1].latest))
                              => Len(d[i + 1].alerts) = 1

\* metrics high, neutral, high have produced two alerts
C4_Witness ==
    \E symbol \in Symbols :
        LET d == Decided(symbol)
        IN  \E i \in 1..Len(d) :
                /\ i + 2 <= Len(d)
                /\ Above(d[i].latest) /\ AlertKinds(d[i]) = <<"high">>
                /\ InBand(d[i + 1].latest)
                /\ Above(d[i + 2].latest) /\ AlertKinds(d[i + 2]) = <<"high">>

\* a metric of exactly rsiUpper has been decided
C4_AtUpperBound ==
    \E symbol \in Symbols :
        \E i \in 1..Len(tickLog[symbol]) :
            tickLog[symbol][i].latest = rsiUpper * Hundredths

\* the rolling window of a symbol in the running program, and its capacity
Window(symbol) ==
    IF program = "rsi" THEN closePrices[symbol] ELSE volumeHistory[symbol]
Capacity == IF program = "rsi" THEN closeLimit ELSE candleLimit

\* C5: every rolling window holds at most its capacity: 100 closes in the
\* momentum bot, 30 volumes in the volume bot.
C5_WindowWithinCapacity ==
    \A symbol \in Symbols :
        /\ Len(closePrices[symbol]) <= closeLimit
        /\ Len(volumeHistory[symbol]) <= candleLimit

\* closed candles have been pushed on a window the backfill had filled
C5_Witness ==
    \E symbol \in Symbols :
        /\ program = "rsi"
        /\ Len(seeded[symbol]) = closeLimit
        /\ Len(tickLog[symbol]) >= 2
        /\ Len(closePrices[symbol]) = closeLimit

LastN(seq, n) ==
    IF Len(seq) <= n THEN seq ELSE SubSeq(seq, Len(seq) - n + 1, Len(seq))

\* the samples of a symbol's closed candles, in arrival order
Samples(symbol) ==
    [i \in 1..Len(tickLog[symbol]) |-> tickLog[symbol][i].sample]

\* C6: a window is the last N elements of the backfilled samples followed by
\* the closed candles' samples in arrival order.
C6_WindowIsSuffix ==
    \A symbol \in Symbols :
        Window(symbol) = LastN(seeded[symbol] \o Samples(symbol), Capacity)

\* more samples than the capacity have gone into a window
C6_Witness ==
    \E symbol \in Symbols :
        /\ program = "volume"
        /\ seeded[symbol] # <<>>
        /\ Len(tickLog[symbol]) >= 2
        /\ Len(seeded[symbol]) + Len(tickLog[symbol]) > candleLimit

\* the volume bot's condition, in the claim's words, on the history before
\* the push and the current value
Qualifies(history, current) ==
    /\ Len(history) >= candleLimit
    /\ current # NaN
    /\ Sum(history) # NaN
    /\ current * Len(history) >= volumeMultiplier * Sum(history)
    /\ current >= volumeFloor

\* C7: a closed candle of the volume bot enqueues one alert if its value is
\* at least twice the mean of a history of at least 30 samples and at least
\* 50,000, and nothing otherwise, whatever the earlier candles did.
C7_SpikeIffQualifies ==
    [][(program = "volume" /\ msgs' = msgs + 1 /\ last'.kind = "closed")
           => LET symbol == last'.symbol
                  current == Last(volumeHistory'[symbol])
              IN  alertQueue' =
                      IF Qualifies(volumeHistory[symbol], current)
                      THEN Append(alertQueue,
                                  [base |-> Base(symbol),
                                   alertType |-> "volume",
                                   volumeUSD |-> current])
                      ELSE alertQueue]_vars

\* two consecutive candles of one symbol have each enqueued an alert
C7_Witness ==
    \E symbol \in Symbols :
        \E i \in 1..Len(tickLog[symbol]) :
            /\ program = "volume"
            /\ i < Len(tickLog[symbol])
            /\ tickLog[symbol][i].alerts # <<>>
            /\ tickLog[symbol][i + 1].alerts # <<>>

\* C8: a drain tick on a non-empty queue removes the oldest alert and hands
\* exactly that one to the sink; on an empty queue it hands nothing.  (So K
\* queued alerts leave in order over the next K drain ticks.)
C8_DrainHandsOldest ==
    [][last'.kind = "drain"
           => IF alertQueue = <<>>
              THEN alertQueue' = <<>> /\ handed' = handed
              ELSE /\ handed' = Append(handed, Head(alertQueue))
                   /\ alertQueue' = Tail(alertQueue)]_vars

\* several alerts have been drained, down to an empty queue
C8_Witness ==
    /\ last.kind = "drain"
    /\ last.info # "empty"
    /\ Len(handed) >= 2
    /\ alertQueue = <<>>

\* C9: the alerts ever enqueued are the alerts handed to the sink followed by
\* the queue's contents.
C9_HandedThenQueued == handed \o alertQueue = enqueued

\* alerts handed and alerts waiting, producers and timer interleaved
C9_Witness ==
    /\ handed # <<>>
    /\ alertQueue # <<>>
    /\ last.kind = "closed"

\* C10: with the drain timer firing again and again, the n-th alert enqueued
\* is eventually the n-th alert handed to the sink.
C10_EveryAlertHanded ==
    \A n \in 1..MaxMsgs :
        (Len(enqueued) >= n) ~> (Len(handed) >= n /\ handed[n] = enqueued[n])

\* a backlog: alerts waiting behind one already handed
C10_Witness ==
    /\ Len(alertQueue) >= 2
    /\ handed # <<>>

\* C11: a rejected delivery changes nothing: the alert is not put back on the
\* queue, it is not handed over again, no window and no alert state moves;
\* and the drain tick that follows a rejection hands over the next alert.
C11_RejectedDeliveryIsDropped ==
    [][/\ (last'.kind = "settled" /\ last'.info = "rejected")
           => UNCHANGED <<alertQueue, handed, enqueued, closePrices,
                          volumeHistory, lastAlert>>
       /\ (/\ last.kind = "settled"
           /\ last.info = "rejected"
           /\ last'.kind = "drain"
           /\ alertQueue # <<>>)
           => /\ handed' = Append(handed, Head(alertQueue))
              /\ alertQueue' = Tail(alertQueue)]_vars

\* a delivery has just been rejected while further alerts wait in the queue
C11_Witness ==
    /\ last.kind = "settled"
    /\ last.info = "rejected"
    /\ settled = Len(handed)
    /\ alertQueue # <<>>

\* C12: a live event of a forming candle (k.x false) leaves every window,
\* every alert state and the alert queue unchanged, in both bots.
C12_FormingIsIgnored ==
    [][last'.kind = "forming"
           => UNCHANGED <<closePrices, volumeHistory, lastAlert, alertQueue>>]_vars

\* a forming candle has been handled for a symbol whose window holds samples
\* and that has alerted before
C12_Witness ==
    /\ last.kind = "forming"
    /\ Window(last.symbol) # <<>>
    /\ tickLog[last.symbol] # <<>>
    /\ enqueued # <<>>

\* C13: momentum bot: a closed candle's metric is decided on (compared with
\* the thresholds) if and only if the symbol's window, after the push, holds
\* at least rsiPeriod + 1 prices; with fewer prices the alert states and the
\* queue stay as they were.
C13_DecisionIffSixteen ==
    [][(program = "rsi" /\ msgs' = msgs + 1 /\ last'.kind = "closed")
           => LET symbol == last'.symbol
                  filled == Len(closePrices'[symbol]) >= rsiPeriod + 1
              IN  /\ IsDecided(Last(tickLog'[symbol])) <=> filled
                  /\ ~filled => /\ lastAlert' = lastAlert
                                /\ alertQueue' = alertQueue]_vars

\* a window of 15 prices gave no metric, the same window with a 16th did
C13_Witness ==
    \E symbol \in Symbols :
        /\ program = "rsi"
        /\ Len(tickLog[symbol]) = 2
        /\ Len(closePrices[symbol]) = rsiPeriod + 1
        /\ ~IsDecided(tickLog[symbol][1])
        /\ IsDecided(tickLog[symbol][2])

\* the volume bot's history as it stood when closed candle i of a symbol
\* arrived
HistoryBefore(symbol, i) ==
    LastN(seeded[symbol] \o SubSeq(Samples(symbol), 1, i - 1), candleLimit)

\* closed candle i of a symbol had no usable metric: the sample was not a
\* number, or the momentum bot's RSI was undefined, or the volume bot's mean
\* was not a number
MetricMissing(symbol, i) ==
    \/ tickLog[symbol][i].sample = NaN
    \/ program = "rsi" /\ ~IsDecided(tickLog[symbol][i])
    \/ program = "volume" /\ Average(HistoryBefore(symbol, i)).nan

\* C14 (as stated): a closed candle whose metric is undefined or not a number
\* (under-filled window, non-numeric sample) enqueues no alert and leaves the
\* symbol's alert state unchanged.
C14_MissingMetricNoDecision ==
    \A symbol \in Symbols : \A i \in 1..Len(tickLog[symbol]) :
        MetricMissing(symbol, i)
            => /\ tickLog[symbol][i].alerts = <<>>
               /\ tickLog[symbol][i].after = tickLog[symbol][i].before

\* the part of C14 the code keeps: an undefined RSI, and in the volume bot a
\* non-numeric sample or mean, enqueue nothing and change no alert state
C14_UndefinedOrVolumeNoDecision ==
    \A symbol \in Symbols : \A i \in 1..Len(tickLog[symbol]) :
        (MetricMissing(symbol, i)
             /\ (program = "rsi" => ~IsDecided(tickLog[symbol][i])))
            => /\ tickLog[symbol][i].alerts = <<>>
               /\ tickLog[symbol][i].after = tickLog[symbol][i].before

\* C15 (as stated): a malformed live-feed message (unparseable, without
\* symbol or kline object, or a closed candle whose price or volume is
\* missing or not a number) leaves every window, every alert state and the
\* alert queue unchanged.
C15_MalformedIsDropped ==
    [][(\/ last'.kind = "malformed"
        \/ last'.kind = "closed" /\ last'.info = "non-numeric")
           => UNCHANGED <<closePrices, volumeHistory, lastAlert, alertQueue>>]_vars

\* the part of C15 the code keeps: a message on which the handler throws
\* (unparseable, no symbol, no kline object) changes nothing
C15_ThrowingIsDropped ==
    [][last'.kind = "malformed"
           => UNCHANGED <<closePrices, volumeHistory, lastAlert, alertQueue>>]_vars

\* C16: handling a live message for one symbol, well-formed or not, leaves
\* the window and the alert state of every other symbol unchanged.
C16_OtherSymbolsUntouched ==
    [][msgs' = msgs + 1
           => \A other \in Symbols \ {last'.symbol} :
                  /\ closePrices'[other] = closePrices[other]
                  /\ volumeHistory'[other] = volumeHistory[other]
                  /\ lastAlert'[other] = lastAlert[other]
                  /\ tickLog'[other] = tickLog[other]]_vars

\* a closed candle of one symbol has been handled after closed candles of
\* another symbol, whose window is filled
C16_Witness ==
    \E other \in Symbols \ {last.symbol} :
        /\ last.kind = "closed"
        /\ tickLog[last.symbol] # <<>>
        /\ tickLog[other] # <<>>
        /\ Window(other) # <<>>

\* getTopSymbols has returned the universe (it is never empty here)
UniverseFetched == symbols # <<>>

\* C17 (as stated): the universe fetch is the only failure that prevents
\* live ingestion: startup is abandoned only in runs whose universe fetch
\* failed, and live ingestion never starts in such a run.
C17_OnlyUniverseFetchStops ==
    /\ pc = "stopped" => ~UniverseFetched
    /\ pc = "live" => UniverseFetched

\* the part of C17 the code keeps: live ingestion has started although a
\* symbol's backfill failed, and that symbol's window started empty
C17_LiveAfterFailedBackfill ==
    \E symbol \in Symbols :
        /\ pc = "live"
        /\ symbol \in preloaded
        /\ seeded[symbol] = <<>>
        /\ msgs = 0
        /\ Window(symbol) = <<>>

\* C18: no live tick is handled before the backfill attempt of every symbol
\* of the universe has completed, and no backfill completes once a live tick
\* has been handled (so a backfill never overwrites live samples).
C18_BackfillBeforeLive ==
    /\ (pc = "live" \/ msgs > 0)
           => /\ UniverseFetched
              /\ Subscribed \subseteq preloaded
    /\ last.kind = "preload"
           => /\ msgs = 0
              /\ \A symbol \in Symbols : tickLog[symbol] = <<>>

\* live ticks have been handled for a backfilled symbol while another
\* symbol's backfill had failed
C18_Witness ==
    \E symbol \in Symbols : \E failed \in Symbols :
        /\ seeded[symbol] # <<>>
        /\ tickLog[symbol] # <<>>
        /\ failed \in preloaded
        /\ seeded[failed] = <<>>

\* C19: the handling of one live message is one step.  Whenever a window, an
\* alert state or the enqueue history changes after startup, that step is the
\* whole handling of one closed candle of one symbol: the push with its
\* eviction, the alert-state update and the enqueue (at most one alert)
\* happen together, on the state the previous step left, and no drain tick
\* or delivery is part of it; a drain tick or a settled delivery changes no
\* window and no alert state.  Ticks thus reach a symbol's window and state
\* one at a time, in arrival order.
C19_HandlerIsAtomic ==
    [][/\ (/\ pc = "live"
           /\ \/ closePrices' # closePrices
              \/ volumeHistory' # volumeHistory
              \/ lastAlert' # lastAlert
              \/ enqueued' # enqueued
              \/ tickLog' # tickLog)
           => /\ msgs' = msgs + 1
              /\ last'.kind = "closed"
              /\ handed' = handed
              /\ settled' = settled
              /\ LET symbol == last'.symbol
                     windowAfter == IF program = "rsi"
                                    THEN closePrices'[symbol]
                                    ELSE volumeHistory'[symbol]
                     entry == Last(tickLog'[symbol])
                 IN  /\ Len(tickLog'[symbol]) = Len(tickLog[symbol]) + 1
                     /\ windowAfter =
                            LastN(Append(Window(symbol), entry.sample), Capacity)
                     /\ entry.before = lastAlert[symbol]
                     /\ entry.after = lastAlert'[symbol]
                     /\ Len(entry.alerts) <= 1
                     /\ alertQueue' = alertQueue \o entry.alerts
                     /\ enqueued' = enqueued \o entry.alerts
       /\ last'.kind \in {"drain", "settled"}
           => UNCHANGED <<closePrices, volumeHistory, lastAlert, enqueued,
                          tickLog, msgs>>]_vars

\* closed candles of one symbol have been handled with drain ticks and
\* deliveries in between
C19_Witness ==
    \E symbol \in Symbols :
        /\ last.kind = "closed"
        /\ last.symbol = symbol
        /\ Len(tickLog[symbol]) >= 2
        /\ handed # <<>>
        /\ settled > 0
        /\ tickLog[symbol][Len(tickLog[symbol])].alerts # <<>>

\* the alert state a metric value stands for
StateOf(metric) ==
    IF Above(metric) THEN "high" ELSE IF Below(metric) THEN "low" ELSE "null"

\* C20: momentum bot: after every closed candle on which a metric was
\* decided, the symbol's alert state is the one the metric stands for (high
\* above rsiUpper, low below rsiLower, neutral in between, bounds included),
\* whatever the state was before; the candle enqueued an alert exactly when
\* the state changed on it to high or low, one alert, of the new state's
\* kind.
C20_StateFollowsMetric ==
    \A symbol \in Symbols :
        LET d == Decided(symbol)
        IN  \A i \in 1..Len(d) :
                /\ d[i].after = StateOf(d[i].latest)
                /\ InBand(d[i].latest) <=> d[i].after = "null"
                /\ AlertKinds(d[i]) =
                       IF d[i].after # d[i].before /\ d[i].after \in AlertKindSet
                       THEN <<d[i].after>>
                       ELSE <<>>

\* a symbol stayed high on one candle without an alert and fell back to
\* neutral on a later one
C20_Witness ==
    \E symbol \in Symbols :
        LET d == Decided(symbol)
        IN  \E i \in 1..Len(d) : \E j \in 1..Len(d) :
                /\ i < j
                /\ d[i].before = "high"
                /\ d[i].after = "high"
                /\ d[j].before = "high"
                /\ d[j].after = "null"

=============================================================================
